---- MODULE Spec2Model ----
(***************************************************************************)
(* A model of the http3 package's connection (src/http3/conn.go) and of    *)
(* its Settings frame codec (second half of src/http3/errors.go).          *)
(*                                                                         *)
(* SpecCodec  drives the pure Settings codec over bounded inputs.          *)
(* Spec       one connection built by Open, its peer played by the         *)
(*            environment: the accept loop and the per-stream handlers.    *)
(* SpecCalls  the same connection with callers suspended in PeerSettings   *)
(*            and AcceptUniStream.                                         *)
(* SpecBidi   the same connection with callers of AcceptStream and         *)
(*            OpenStream.                                                  *)
(* SpecDemux  the same connection with callers of AcceptUniStream only,    *)
(*            taking the generic streams out of the channel.               *)
(* SpecE2E    a client and a server on the two ends of one session, each   *)
(*            receiving the control stream the other one wrote.            *)
(***************************************************************************)
EXTENDS Integers, Sequences, FiniteSets, TLC

\* ------------------------------------------------------------------------
\* Bounds of the model
\* ------------------------------------------------------------------------
\* Largest number of entries of an enumerated Settings mapping.
MaxSettings == 2
\* Largest number of id/value pairs of a hand-crafted payload.
MaxPairs == 3

\* ------------------------------------------------------------------------
\* Program constants
\* ------------------------------------------------------------------------
FrameTypeSettings == 4
SettingDatagram == 16765558
SettingDatagramDraft00 == 630
\* 8*(1<<10), the cap tested by UnmarshalFrame and ReadSettingsFrame
MaxSettingsFrameLen == 8192

\* ------------------------------------------------------------------------
\* quicvarint: the variable-length integer primitive (RFC 9000, section 16).
\* A byte string is a sequence over 0..255.  Values stay below 2^31, which
\* still exercises the 1, 2, 4 and 8 byte forms.
\* ------------------------------------------------------------------------
Pow30 == 1073741824

\* The element of a one-element set.  { f(x) : x \in {e} } computes e once
\* and f on its value: the operators below name their intermediate results
\* this way, so that none is computed again at each of its uses.
Only(S) == CHOOSE x \in S : TRUE

VarintLen(v) ==
    IF v < 64 THEN 1 ELSE IF v < 16384 THEN 2 ELSE IF v < Pow30 THEN 4 ELSE 8

\* v written in the n-byte form, n in {1, 2, 4, 8} (n may exceed VarintLen(v):
\* a peer is free to use a longer form than needed).
VarintBytes(v, n) ==
    CASE n = 1 -> << v >>
      [] n = 2 -> << 64 + (v \div 256), v % 256 >>
      [] n = 4 -> << 128 + (v \div 16777216), (v \div 65536) % 256,
                     (v \div 256) % 256, v % 256 >>
      [] n = 8 -> << 192, 0, 0, 0, (v \div 16777216) % 256, (v \div 65536) % 256,
                     (v \div 256) % 256, v % 256 >>

VarintWrite(v) == VarintBytes(v, VarintLen(v))

RECURSIVE BigEndian(_, _)
BigEndian(b, acc) ==
    IF b = << >> THEN acc ELSE BigEndian(Tail(b), acc * 256 + Head(b))

\* quicvarint.Read: the first byte's two top bits give the length; a reader
\* that runs out of bytes yields io.EOF.
VarintRead(b) ==
    IF b = << >> THEN [ok |-> FALSE, val |-> 0, rest |-> << >>]
    ELSE LET n == CASE b[1] < 64 -> 1 [] b[1] < 128 -> 2 [] b[1] < 192 -> 4 [] OTHER -> 8
         IN  IF Len(b) < n THEN [ok |-> FALSE, val |-> 0, rest |-> << >>]
             ELSE [ok   |-> TRUE,
                   val  |-> BigEndian(SubSeq(b, 2, n), b[1] % 64),
                   rest |-> SubSeq(b, n + 1, Len(b))]

\* ------------------------------------------------------------------------
\* Settings: a map from Setting id to value, as a function on a finite set.
\* A nil map is modelled by the empty function, with the error beside it.
\* ------------------------------------------------------------------------
NoSettings == << >>

\* A slip in FrameLength: only the ids are counted, not the values.
FrameLengthIdsOnly(s) ==
    LET ids(n) == Cardinality({id \in DOMAIN s : VarintLen(id) = n})
    IN  ids(1) + 2 * ids(2) + 4 * ids(4) + 8 * ids(8)

\* Settings.FrameLength: the sum of the varint sizes of all ids and values.
\* A varint takes 1, 2, 4 or 8 bytes, so the sum of the loop is taken size
\* by size: n times the number of ids, and of values, written on n bytes.
FrameLength(s) ==
    LET ids(n)  == Cardinality({id \in DOMAIN s : VarintLen(id) = n})
        vals(n) == Cardinality({id \in DOMAIN s : VarintLen(s[id]) = n})
    IN  (ids(1) + vals(1)) + 2 * (ids(2) + vals(2))
            + 4 * (ids(4) + vals(4)) + 8 * (ids(8) + vals(8))

\* The loop of WriteFrame over ids: the pairs one after the other (written
\* by halves, again to keep the evaluation shallow).
RECURSIVE WritePairs(_, _)
WritePairs(s, ids) ==
    IF ids = << >> THEN << >>
    ELSE IF Len(ids) = 1 THEN VarintWrite(ids[1]) \o VarintWrite(s[ids[1]])
    ELSE LET h == Len(ids) \div 2
         IN  WritePairs(s, SubSeq(ids, 1, h)) \o WritePairs(s, SubSeq(ids, h + 1, Len(ids)))

\* sort.Slice(ids, func(i, j int) bool { return i < j }): the comparator
\* compares the two indices, not ids[i] and ids[j].  On a slice of up to 12
\* elements sort.Slice sorts by insertion, swapping j and j-1 when
\* less(j, j-1), which is never: the slice keeps the order in which the
\* range over the map appended the ids.  On a longer slice whatever is moved
\* is moved by position, never by id, so the result is again some order the
\* range could have produced; the iteration order stands for it.
SortSlice(ids) == ids

\* Settings.WriteFrame, for the order `ids` in which the range over the map
\* yields the keys (Go leaves that order unspecified).
WriteFrame(s, ids) ==
    VarintWrite(FrameTypeSettings) \o VarintWrite(FrameLength(s))
        \o WritePairs(s, SortSlice(ids))

\* A slip in the loop: no test for an id already present, the later value wins.
ParsePairKeepLast(b, s) ==
    LET id == VarintRead(b)
        val == VarintRead(id.rest)
    IN  IF ~id.ok \/ ~val.ok
        THEN [err |-> "EOF", s |-> NoSettings, rest |-> << >>, turns |-> 1]
        ELSE [err  |-> "nil",
              s    |-> [x \in DOMAIN s \cup {id.val} |-> IF x = id.val THEN val.val ELSE s[x]],
              rest |-> val.rest, turns |-> 1]

\* One turn of the loop shared by UnmarshalFrame and ReadSettingsFrame: read
\* an id and a value from b, refuse an id s already has, else store the pair.
\* `turns` counts the turns of the loop that were entered.
ParsePair(b, s) ==
    Only({ Only({ IF ~id.ok \/ ~val.ok
                  THEN [err |-> "EOF", s |-> NoSettings, rest |-> << >>, turns |-> 1]
                  ELSE IF id.val \in DOMAIN s
                  THEN [err |-> "duplicate setting", s |-> NoSettings, rest |-> << >>,
                        turns |-> 1]
                  ELSE [err  |-> "nil",
                        s    |-> [x \in DOMAIN s \cup {id.val} |->
                                     IF x = id.val THEN val.val ELSE s[x]],
                        rest |-> val.rest, turns |-> 1]
                  : val \in {VarintRead(id.rest)} })
           : id \in {VarintRead(b)} })

\* At most n turns of that loop, stopping at the first error or when b is
\* exhausted (`for r.Len() > 0`).  The turns are taken by halves to keep the
\* evaluation shallow; the order of the turns is that of the loop.
RECURSIVE ParseTurns(_, _, _)
ParseTurns(b, s, n) ==
    IF b = << >> \/ n = 0 THEN [err |-> "nil", s |-> s, rest |-> b, turns |-> 0]
    ELSE IF n = 1 THEN ParsePair(b, s)
    ELSE Only({ IF first.err # "nil" THEN first
                ELSE Only({ [second EXCEPT !.turns = first.turns + second.turns]
                            : second \in {ParseTurns(first.rest, first.s, n - (n \div 2))} })
                : first \in {ParseTurns(b, s, n \div 2)} })

\* The whole loop: a pair takes at least two bytes, so Len(b) turns suffice.
ParsePairs(b, s) ==
    Only({ [err |-> r.err, s |-> r.s, turns |-> r.turns] : r \in {ParseTurns(b, s, Len(b))} })

\* A slip in ReadSettingsFrame: the buffer is allocated and filled from the
\* reader first, and the length is tested afterwards.
ReadSettingsFrameCapLate(r, l) ==
    IF Len(r) < l
    THEN [err |-> "EOF", s |-> NoSettings, turns |-> 0, alloc |-> l, read |-> Len(r)]
    ELSE IF l > MaxSettingsFrameLen
    THEN [err |-> "unexpected size", s |-> NoSettings, turns |-> 0, alloc |-> l, read |-> l]
    ELSE Only({ [err |-> p.err, s |-> p.s, turns |-> p.turns, alloc |-> l, read |-> l]
                : p \in {ParsePairs(SubSeq(r, 1, l), NoSettings)} })

\* ReadSettingsFrame(r, l): r holds the bytes still unread on the reader.
\* Beside the error and the mapping, the result tells what the call did:
\* `alloc` the size of the buffer made, `read` the bytes io.ReadFull took
\* from the reader, `turns` the turns of the loop.
ReadSettingsFrame(r, l) ==
    IF l > MaxSettingsFrameLen
    THEN [err |-> "unexpected size", s |-> NoSettings, turns |-> 0, alloc |-> 0, read |-> 0]
    ELSE IF Len(r) < l
    THEN [err |-> "EOF", s |-> NoSettings, turns |-> 0, alloc |-> l, read |-> Len(r)]
    ELSE Only({ [err |-> p.err, s |-> p.s, turns |-> p.turns, alloc |-> l, read |-> l]
                : p \in {ParsePairs(SubSeq(r, 1, l), NoSettings)} })

\* s.UnmarshalFrame(b), s being the caller's map: the result is the error and
\* the caller's map after the call.  `*(&s) = Settings{}` makes the receiver
\* variable, a copy of the caller's map header, point to a fresh map; the
\* pairs go into that fresh map and the caller's map is left as it was.
UnmarshalFrame(s, b) ==
    IF Len(b) > MaxSettingsFrameLen THEN [err |-> "unexpected size", s |-> s, turns |-> 0]
    ELSE Only({ [err |-> p.err, s |-> s, turns |-> p.turns]
                : p \in {ParsePairs(b, NoSettings)} })

\* ------------------------------------------------------------------------
\* Inputs of the codec
\* ------------------------------------------------------------------------
\* Ids with a 1, 2, 4 and 8 byte form, the two well-known ones among them.
BigBase == Pow30
SettingIds == {1, SettingDatagramDraft00, SettingDatagram, BigBase + 5}
SettingVals == {0, 1, 300}

SmallSettings ==
    UNION { [D -> SettingVals] :
              D \in {X \in SUBSET SettingIds : Cardinality(X) <= MaxSettings} }

\* A mapping of n entries of 16 bytes each, to reach the size cap.
BigSettings(n) == [id \in {BigBase + i : i \in 0 .. (n - 1)} |-> BigBase]
CapEntries == MaxSettingsFrameLen \div 16

SettingsInputs == SmallSettings \cup {BigSettings(CapEntries), BigSettings(CapEntries + 1)}

Perms(S) ==
    {q \in [1 .. Cardinality(S) -> S] : \A i, j \in DOMAIN q : i # j => q[i] # q[j]}

\* The orders a range over the map is taken to produce: every order for an
\* enumerated mapping, ascending and descending for the two large ones.
IterOrders(s) ==
    IF Cardinality(DOMAIN s) <= MaxSettings THEN Perms(DOMAIN s)
    ELSE LET n == Cardinality(DOMAIN s)
         IN  { [i \in 1 .. n |-> BigBase + i - 1], [i \in 1 .. n |-> BigBase + n - i] }

\* A hand-crafted payload is a sequence of pairs; each id is written in its
\* shortest form or in the 8-byte form.
PairIds == {1, SettingDatagramDraft00, SettingDatagram}
PairVals == {0, 1}
Pair == [id : PairIds, long : BOOLEAN, val : PairVals]

RECURSIVE PairBytes(_)
PairBytes(ps) ==
    IF ps = << >> THEN << >>
    ELSE IF Len(ps) = 1
         THEN VarintBytes(ps[1].id, IF ps[1].long THEN 8 ELSE VarintLen(ps[1].id))
                  \o VarintWrite(ps[1].val)
    ELSE LET h == Len(ps) \div 2
         IN  PairBytes(SubSeq(ps, 1, h)) \o PairBytes(SubSeq(ps, h + 1, Len(ps)))

\* n pairs of 16 bytes each: all with the same id, or with ids ascending.
BigPairs(n, same) ==
    [i \in 1 .. n |->
        [id |-> IF same THEN BigBase ELSE BigBase + i, long |-> FALSE, val |-> BigBase]]

SmallPairSeqs == UNION { [1 .. n -> Pair] : n \in 0 .. MaxPairs }

PairInputs ==
    SmallPairSeqs \cup { BigPairs(CapEntries, TRUE), BigPairs(CapEntries, FALSE),
                         BigPairs(CapEntries + 1, TRUE) }

\* The payload handed to the decoders: the pairs' bytes, the last byte cut
\* off when trunc.
CraftedPayload(ps, trunc) ==
    LET b == PairBytes(ps)
    IN  IF trunc /\ b # << >> THEN SubSeq(b, 1, Len(b) - 1) ELSE b

\* The maps a caller may hold when it calls UnmarshalFrame on them.
ReceiverInputs == { NoSettings, [id \in {SettingDatagram} |-> 1] }

\* What parseNextFrame reads before the payload: the frame type and the
\* payload length, both varints.
ParseFrameHeader(b) ==
    Only({ Only({ IF ~t.ok \/ ~l.ok
                  THEN [ok |-> FALSE, type |-> 0, len |-> 0, rest |-> << >>]
                  ELSE [ok |-> TRUE, type |-> t.val, len |-> l.val, rest |-> l.rest]
                  : l \in {VarintRead(t.rest)} })
           : t \in {VarintRead(b)} })

\* ------------------------------------------------------------------------
\* The connection: helpers
\* ------------------------------------------------------------------------
\* Largest number of unidirectional streams the peer opens.
MaxStreams == 2
\* Largest number of unidirectional streams the peer opens while the accessors
\* are exercised.
MaxCallStreams == 2
\* Number of callers of PeerSettings (or of AcceptStream and OpenStream).
NCallers == 2
\* Largest number of bidirectional streams the peer opens.
MaxBidi == 1

Ends == {"client", "server"}
Other(e) == IF e = "client" THEN "server" ELSE "client"
\* Caller 0 is the consumer of the inbound queue; the others are alike.
Consumer == 0
Callers == 0 .. NCallers
StreamIdx == 1 .. MaxStreams

StreamTypeControl == 0
StreamTypePush == 1
StreamTypeQPACKEncoder == 2
StreamTypeQPACKDecoder == 3

\* Settings.EnableDatagrams / Settings.DatagramsEnabled
EnableDatagrams(s) ==
    [id \in DOMAIN s \cup {SettingDatagram} |-> IF id = SettingDatagram THEN 1 ELSE s[id]]
DatagramsEnabled(s) ==
    \E id \in DOMAIN s \cap {SettingDatagram, SettingDatagramDraft00} : s[id] = 1

\* parseNextFrame: type, length, then the payload; a Settings frame is
\* decoded by the reader variant, any other frame is returned as such.
ParseNextFrame(b) ==
    Only({ IF ~h.ok THEN [kind |-> "error", s |-> NoSettings]
           ELSE IF h.type = FrameTypeSettings
           THEN Only({ IF r.err = "nil" THEN [kind |-> "settings", s |-> r.s]
                       ELSE [kind |-> "error", s |-> NoSettings]
                       : r \in {ReadSettingsFrame(h.rest, h.len)} })
           ELSE IF Len(h.rest) < h.len THEN [kind |-> "error", s |-> NoSettings]
           ELSE [kind |-> "other", s |-> NoSettings]
           : h \in {ParseFrameHeader(b)} })

\* The first unidirectional stream a side opens has id 2 (client) or 3 (server).
FirstUniStreamID(e) == IF e = "server" THEN 3 ELSE 2

\* What the peer may send on a unidirectional stream: nothing at all, a
\* control stream with a Settings frame (empty, or enabling datagrams), with
\* another frame, or with a frame cut short, a push stream, the two QPACK
\* streams, and a stream of a non-reserved type.
DatagramSettings == EnableDatagrams(NoSettings)
GenericStreamType == 84
PeerStreamData ==
    { << >>,
      << 64 >>,
      VarintWrite(StreamTypeControl) \o WriteFrame(NoSettings, << >>),
      VarintWrite(StreamTypeControl) \o WriteFrame(DatagramSettings, << SettingDatagram >>),
      VarintWrite(StreamTypeControl) \o << 0, 0 >>,
      VarintWrite(StreamTypeControl) \o << FrameTypeSettings, 3, 1 >>,
      VarintWrite(StreamTypePush),
      VarintWrite(StreamTypeQPACKEncoder),
      VarintWrite(StreamTypeQPACKDecoder),
      VarintWrite(GenericStreamType) }

\* The streams sent while the accessors are exercised.
CallStreamData ==
    { VarintWrite(StreamTypeControl) \o WriteFrame(NoSettings, << >>),
      VarintWrite(StreamTypeControl) \o WriteFrame(DatagramSettings, << SettingDatagram >>),
      VarintWrite(StreamTypeControl) \o << 0, 0 >>,
      VarintWrite(StreamTypePush),
      VarintWrite(StreamTypeQPACKEncoder),
      VarintWrite(GenericStreamType) }

\* The settings argument of Open: nil, or a mapping of the caller's.
SettingsArgs == { [nil |-> TRUE, s |-> NoSettings], [nil |-> FALSE, s |-> DatagramSettings] }

NoStream == [data |-> << >>, pc |-> "absent", cancel |-> "none"]
IdleCall == [op |-> "none", st |-> "idle", sig |-> FALSE, s |-> NoSettings, err |-> "nil", str |-> 0]

\* ------------------------------------------------------------------------
\* State
\* ------------------------------------------------------------------------
VARIABLES
    cMode,      \* "enc": a mapping is encoded, then decoded; "dec": a crafted payload is decoded
    cIn,        \* the Settings mapping given to WriteFrame
    cPairs,     \* the pairs a crafted payload was built from
    cTrunc,     \* whether the crafted payload lost its last byte
    cWire,      \* the bytes WriteFrame wrote
    cHdr,       \* the frame type and length read back from cWire
    cPayload,   \* the payload handed to the decoders
    cRecv,      \* the caller's map UnmarshalFrame is called on
    cRead,      \* result of ReadSettingsFrame
    cUnm,       \* result of UnmarshalFrame: error and the caller's map afterwards
    cPc,
    \* the transport session, shared by its two ends
    live,               \* the ends on which Open is called
    supportsDatagrams,  \* ConnectionState().SupportsDatagrams
    sessClosed,         \* the session's lifetime context is done
    closeCalls,         \* per end: the codes passed to CloseWithError, in order
    inStreams,          \* per end: the incoming unidirectional streams, [data, pc, cancel]
    bidiPending,        \* per end: incoming bidirectional streams not yet accepted
    bidiTaken,          \* per end: bidirectional streams accepted from / opened on the transport
    \* Open and the connection it builds, per end
    settingsArg,        \* the settings argument of Open
    openPc,             \* "start", "opened", "written", "running", "failed"
    settings,           \* conn.settings
    ctrlOut,            \* the bytes written to the control stream opened by Open
    isServer,           \* conn.isServer
    loopPc,             \* handleIncomingUniStreams: "none", "running", "exited"
    peerStreamsMutex,   \* 0, or the stream whose handler holds the mutex
    peerStreams,        \* conn.peerStreams: slot -> stream (0: nil)
    peerSettingsDone,   \* the channel is closed
    peerSettings,       \* [set, s]: conn.peerSettings
    peerSettingsErr,    \* conn.peerSettingsErr
    incomingUniStreams, \* the channel's buffer (capacity 1)
    calls               \* per end and caller: the accessor call in progress

codecVars == << cMode, cIn, cPairs, cTrunc, cWire, cHdr, cPayload, cRecv, cRead, cUnm, cPc >>
sessVars == << live, supportsDatagrams, sessClosed, closeCalls, inStreams, bidiPending, bidiTaken >>
openVars == << settingsArg, openPc, settings, ctrlOut, isServer, loopPc >>
connVars == << peerStreamsMutex, peerStreams, peerSettingsDone, peerSettings, peerSettingsErr,
               incomingUniStreams, calls >>

vars == << codecVars, sessVars, openVars, connVars >>

NotRun == [err |-> "not run", s |-> NoSettings, turns |-> 0, alloc |-> 0, read |-> 0]
NotCalled == [err |-> "not run", s |-> NoSettings, turns |-> 0]
NoHdr == [ok |-> FALSE, type |-> 0, len |-> 0, rest |-> << >>]

\* The connection part, before Open is called.
InitConnIdle ==
    /\ sessClosed = FALSE
    /\ closeCalls = [e \in Ends |-> << >>]
    /\ inStreams = [e \in Ends |-> [i \in StreamIdx |-> NoStream]]
    /\ bidiPending = [e \in Ends |-> 0]
    /\ bidiTaken = [e \in Ends |-> 0]
    /\ openPc = [e \in Ends |-> "start"]
    /\ settings = [e \in Ends |-> NoSettings]
    /\ ctrlOut = [e \in Ends |-> << >>]
    /\ isServer = [e \in Ends |-> FALSE]
    /\ loopPc = [e \in Ends |-> "none"]
    /\ peerStreamsMutex = [e \in Ends |-> 0]
    /\ peerStreams = [e \in Ends |-> [t \in 0 .. 3 |-> 0]]
    /\ peerSettingsDone = [e \in Ends |-> FALSE]
    /\ peerSettings = [e \in Ends |-> [set |-> FALSE, s |-> NoSettings]]
    /\ peerSettingsErr = [e \in Ends |-> "nil"]
    /\ incomingUniStreams = [e \in Ends |-> << >>]
    /\ calls = [e \in Ends |-> [c \in Callers |-> IdleCall]]

\* The codec part, when the codec is not what is driven.
InitCodecIdle ==
    /\ cMode = "idle"
    /\ cIn = NoSettings
    /\ cPairs = << >>
    /\ cTrunc = FALSE
    /\ cWire = << >>
    /\ cHdr = NoHdr
    /\ cPayload = << >>
    /\ cRecv = NoSettings
    /\ cRead = NotRun
    /\ cUnm = NotCalled
    /\ cPc = "idle"

\* ------------------------------------------------------------------------
\* The codec, driven over its inputs
\* ------------------------------------------------------------------------
InitCodec ==
    /\ live = {}
    /\ supportsDatagrams = FALSE
    /\ settingsArg = [e \in Ends |-> [nil |-> TRUE, s |-> NoSettings]]
    /\ InitConnIdle
    /\ cMode \in {"enc", "dec"}
    /\ cRecv \in ReceiverInputs
    /\ cWire = << >>
    /\ cHdr = NoHdr
    /\ cRead = NotRun
    /\ cUnm = NotCalled
    /\ \/ /\ cMode = "enc"
          /\ cIn \in SettingsInputs
          /\ cPairs = << >>
          /\ cTrunc = FALSE
          /\ cPayload = << >>
          /\ cPc = "start"
       \/ /\ cMode = "dec"
          /\ cIn = NoSettings
          /\ cPairs \in PairInputs
          /\ cTrunc \in BOOLEAN
          /\ cPayload = CraftedPayload(cPairs, cTrunc)
          /\ cPc = "payload"

\* s.WriteFrame(w)
DoWriteFrame ==
    /\ cPc = "start"
    /\ \E ids \in IterOrders(cIn) : cWire' = WriteFrame(cIn, ids)
    /\ cPc' = "written"
    /\ UNCHANGED << cMode, cIn, cPairs, cTrunc, cHdr, cPayload, cRecv, cRead, cUnm,
                   sessVars, openVars, connVars >>

\* The reader takes the frame apart: type, length, and the bytes that follow.
DoReadHeader ==
    /\ cPc = "written"
    /\ cHdr' = ParseFrameHeader(cWire)
    /\ cPayload' = cHdr'.rest
    /\ cPc' = "payload"
    /\ UNCHANGED << cMode, cIn, cPairs, cTrunc, cWire, cRecv, cRead, cUnm,
                   sessVars, openVars, connVars >>

\* The declared length: the one read from the header, or the crafted payload's.
DeclaredLen == IF cMode = "enc" THEN cHdr.len ELSE Len(cPayload)

DoReadSettingsFrame ==
    /\ cPc = "payload"
    /\ cRead = NotRun
    /\ cRead' = ReadSettingsFrame(cPayload, DeclaredLen)
    /\ UNCHANGED << cMode, cIn, cPairs, cTrunc, cWire, cHdr, cPayload, cRecv, cUnm, cPc,
                   sessVars, openVars, connVars >>

DoUnmarshalFrame ==
    /\ cPc = "payload"
    /\ cUnm = NotCalled
    /\ cUnm' = UnmarshalFrame(cRecv, cPayload)
    /\ UNCHANGED << cMode, cIn, cPairs, cTrunc, cWire, cHdr, cPayload, cRecv, cRead, cPc,
                   sessVars, openVars, connVars >>

NextCodec ==
    \/ DoWriteFrame
    \/ DoReadHeader
    \/ DoReadSettingsFrame
    \/ DoUnmarshalFrame

SpecCodec == InitCodec /\ [][NextCodec]_vars

\* ------------------------------------------------------------------------
\* The connection: Open
\* ------------------------------------------------------------------------
\* The error codes used by the connection, by their names in errorCode.String
errorGeneralProtocolError == "H3_GENERAL_PROTOCOL_ERROR"
errorStreamCreationError == "H3_STREAM_CREATION_ERROR"
errorFrameError == "H3_FRAME_ERROR"
errorIDError == "H3_ID_ERROR"
errorSettingsError == "H3_SETTINGS_ERROR"
errorMissingSettings == "H3_MISSING_SETTINGS"

\* conn.CloseWithError(code, msg): the session is closed and its context done.
CloseWithError(e, code) ==
    /\ closeCalls' = [closeCalls EXCEPT ![e] = Append(@, code)]
    /\ sessClosed' = TRUE

\* A slip in Open: the defaults never enable datagrams.
OpenSettingsNoDatagrams(e) ==
    IF settingsArg[e].nil THEN NoSettings ELSE settingsArg[e].s

\* The settings Open uses: the caller's, or the defaults when nil.
OpenSettings(e) ==
    IF settingsArg[e].nil
    THEN IF supportsDatagrams THEN EnableDatagrams(NoSettings) ELSE NoSettings
    ELSE settingsArg[e].s

\* A slip in Open: the accept loop is started as soon as the control stream
\* is open, before the Settings frame is written.
OpenControlStreamStartsLoop(e) ==
    /\ e \in live
    /\ openPc[e] = "start"
    /\ ~sessClosed
    /\ settings' = [settings EXCEPT ![e] = OpenSettings(e)]
    /\ ctrlOut' = [ctrlOut EXCEPT ![e] = VarintWrite(StreamTypeControl)]
    /\ openPc' = [openPc EXCEPT ![e] = "opened"]
    /\ loopPc' = [loopPc EXCEPT ![e] = "running"]
    /\ UNCHANGED << codecVars, sessVars, settingsArg, isServer, connVars >>

\* Open, up to OpenTypedStream(StreamTypeControl) returning the stream: the
\* connection is built, a unidirectional stream is opened and the stream
\* type is written to it.
OpenControlStream(e) ==
    /\ e \in live
    /\ openPc[e] = "start"
    /\ ~sessClosed
    /\ settings' = [settings EXCEPT ![e] = OpenSettings(e)]
    /\ ctrlOut' = [ctrlOut EXCEPT ![e] = VarintWrite(StreamTypeControl)]
    /\ openPc' = [openPc EXCEPT ![e] = "opened"]
    /\ UNCHANGED << codecVars, sessVars, settingsArg, isServer, loopPc, connVars >>

\* OpenUniStream fails (the session is closed, or out of streams): Open
\* returns the error.
OpenControlStreamFails(e) ==
    /\ e \in live
    /\ openPc[e] = "start"
    /\ openPc' = [openPc EXCEPT ![e] = "failed"]
    /\ UNCHANGED << codecVars, sessVars, settingsArg, settings, ctrlOut, isServer, loopPc,
                    connVars >>

\* settings.writeFrame(w)
OpenWriteSettings(e) ==
    /\ openPc[e] = "opened"
    /\ \E ids \in IterOrders(settings[e]) :
          ctrlOut' = [ctrlOut EXCEPT ![e] = @ \o WriteFrame(settings[e], ids)]
    /\ openPc' = [openPc EXCEPT ![e] = "written"]
    /\ UNCHANGED << codecVars, sessVars, settingsArg, settings, isServer, loopPc, connVars >>

\* conn.isServer = (str.StreamID() & 1) == 1; go conn.handleIncomingUniStreams()
OpenStartLoop(e) ==
    /\ openPc[e] = "written"
    /\ isServer' = [isServer EXCEPT ![e] = (FirstUniStreamID(e) % 2 = 1)]
    /\ loopPc' = [loopPc EXCEPT ![e] = "running"]
    /\ openPc' = [openPc EXCEPT ![e] = "running"]
    /\ UNCHANGED << codecVars, sessVars, settingsArg, settings, ctrlOut, connVars >>

\* ------------------------------------------------------------------------
\* The peer and the transport
\* ------------------------------------------------------------------------
NextStream(e) ==
    IF \E i \in StreamIdx : inStreams[e][i].pc = "absent"
    THEN CHOOSE i \in StreamIdx :
            /\ inStreams[e][i].pc = "absent"
            /\ \A j \in StreamIdx : j < i => inStreams[e][j].pc # "absent"
    ELSE 0

SetStreamPc(e, i, pc) == inStreams' = [inStreams EXCEPT ![e][i].pc = pc]

\* The peer opens a unidirectional stream, one of at most limit, and sends
\* on it some d of data.
PeerOpens(e, limit, data) ==
    /\ e \in live
    /\ ~sessClosed
    /\ NextStream(e) # 0
    /\ NextStream(e) <= limit
    /\ \E d \in data :
          inStreams' = [inStreams EXCEPT ![e][NextStream(e)] = [data |-> d, pc |-> "pending", cancel |-> "none"]]
    /\ UNCHANGED << codecVars, live, supportsDatagrams, sessClosed, closeCalls, bidiPending,
                    bidiTaken, openVars, connVars >>

PeerOpensUniStream(e) == PeerOpens(e, MaxStreams, PeerStreamData)
PeerOpensCallStream(e) == PeerOpens(e, MaxCallStreams, CallStreamData)

\* The other end's control stream arrives, with what Open wrote on it.
ControlStreamArrives(e) ==
    /\ e \in live
    /\ ~sessClosed
    /\ openPc[Other(e)] \in {"written", "running"}
    /\ inStreams[e][1].pc = "absent"
    /\ inStreams' = [inStreams EXCEPT ![e][1] = [data |-> ctrlOut[Other(e)], pc |-> "pending",
                                              cancel |-> "none"]]
    /\ UNCHANGED << codecVars, live, supportsDatagrams, sessClosed, closeCalls, bidiPending,
                    bidiTaken, openVars, connVars >>

\* The peer opens a bidirectional stream.
PeerOpensBidiStream(e) ==
    /\ e \in live
    /\ ~sessClosed
    /\ bidiPending[e] + bidiTaken[e] < MaxBidi
    /\ bidiPending' = [bidiPending EXCEPT ![e] = @ + 1]
    /\ UNCHANGED << codecVars, live, supportsDatagrams, sessClosed, closeCalls, inStreams,
                    bidiTaken, openVars, connVars >>

\* The session ends: closed by the peer, or lost.
SessionEnds ==
    /\ live # {}
    /\ ~sessClosed
    /\ sessClosed' = TRUE
    /\ UNCHANGED << codecVars, live, supportsDatagrams, closeCalls, inStreams, bidiPending,
                    bidiTaken, openVars, connVars >>

\* ------------------------------------------------------------------------
\* handleIncomingUniStreams and handleIncomingUniStream
\* ------------------------------------------------------------------------
FirstPending(e) ==
    IF \E i \in StreamIdx : inStreams[e][i].pc = "pending"
    THEN CHOOSE i \in StreamIdx :
            /\ inStreams[e][i].pc = "pending"
            /\ \A j \in StreamIdx : j < i => inStreams[e][j].pc # "pending"
    ELSE 0

\* AcceptUniStream returns a stream: go conn.handleIncomingUniStream(str)
LoopAccepts(e) ==
    /\ loopPc[e] = "running"
    /\ ~sessClosed
    /\ FirstPending(e) # 0
    /\ SetStreamPc(e, FirstPending(e), "read")
    /\ UNCHANGED << codecVars, live, supportsDatagrams, sessClosed, closeCalls, bidiPending,
                    bidiTaken, openVars, connVars >>

\* AcceptUniStream returns an error: the loop returns.
LoopExits(e) ==
    /\ loopPc[e] = "running"
    /\ sessClosed
    /\ loopPc' = [loopPc EXCEPT ![e] = "exited"]
    /\ UNCHANGED << codecVars, sessVars, settingsArg, openPc, settings, ctrlOut, isServer,
                    connVars >>

StreamType(e, i) == VarintRead(inStreams[e][i].data).val

\* A slip in the handler: a type that cannot be read closes the connection.
ReadStreamTypeClosesConn(e, i) ==
    /\ inStreams[e][i].pc = "read"
    /\ LET t == VarintRead(inStreams[e][i].data)
       IN  IF ~t.ok
           THEN /\ CloseWithError(e, errorGeneralProtocolError)
                /\ SetStreamPc(e, i, "cancelled")
           ELSE /\ SetStreamPc(e, i, IF t.val < 4 THEN "lock" ELSE "dispatch")
                /\ UNCHANGED << sessClosed, closeCalls >>
    /\ UNCHANGED << codecVars, live, supportsDatagrams, bidiPending, bidiTaken, openVars,
                    connVars >>

\* quicvarint.Read(r) of the stream type; on an error the read side of the
\* stream is cancelled (qstr.CancelRead, with the code kept in `cancel`) and
\* the handler returns.
ReadStreamType(e, i) ==
    /\ inStreams[e][i].pc = "read"
    /\ LET t == VarintRead(inStreams[e][i].data)
       IN  inStreams' = [inStreams EXCEPT ![e][i] =
               IF ~t.ok
               THEN [@ EXCEPT !.pc = "cancelled", !.cancel = errorGeneralProtocolError]
               ELSE [@ EXCEPT !.pc = IF t.val < 4 THEN "lock" ELSE "dispatch"]]
    /\ UNCHANGED << codecVars, live, supportsDatagrams, sessClosed, closeCalls, bidiPending,
                    bidiTaken, openVars, connVars >>

\* A slip in the handler: the stream is recorded whether the slot is free or not.
ClaimSlotOverwrites(e, i) ==
    /\ inStreams[e][i].pc = "lock"
    /\ peerStreamsMutex[e] = 0
    /\ peerStreams' = [peerStreams EXCEPT ![e][VarintRead(inStreams[e][i].data).val] = i]
    /\ inStreams' = [inStreams EXCEPT ![e][i].pc = "dispatch"]
    /\ UNCHANGED << codecVars, live, supportsDatagrams, sessClosed, closeCalls, bidiPending,
                    bidiTaken, openVars, peerStreamsMutex, peerSettingsDone, peerSettings,
                    peerSettingsErr, incomingUniStreams, calls >>

\* Lock, then: the slot is free, the stream is recorded and the mutex unlocked.
ClaimSlot(e, i) ==
    /\ inStreams[e][i].pc = "lock"
    /\ peerStreamsMutex[e] = 0
    /\ peerStreams[e][StreamType(e, i)] = 0
    /\ peerStreams' = [peerStreams EXCEPT ![e][StreamType(e, i)] = i]
    /\ SetStreamPc(e, i, "dispatch")
    /\ UNCHANGED << codecVars, live, supportsDatagrams, sessClosed, closeCalls, bidiPending,
                    bidiTaken, openVars, peerStreamsMutex, peerSettingsDone, peerSettings,
                    peerSettingsErr, incomingUniStreams, calls >>

\* Lock, then: the slot is taken, the connection is closed and the handler
\* returns.  Nothing unlocks the mutex on this path.
ClaimSlotTaken(e, i) ==
    /\ inStreams[e][i].pc = "lock"
    /\ peerStreamsMutex[e] = 0
    /\ peerStreams[e][StreamType(e, i)] # 0
    /\ peerStreamsMutex' = [peerStreamsMutex EXCEPT ![e] = i]
    /\ CloseWithError(e, errorStreamCreationError)
    /\ SetStreamPc(e, i, "duplicate")
    /\ UNCHANGED << codecVars, live, supportsDatagrams, bidiPending, bidiTaken, openVars,
                    peerStreams, peerSettingsDone, peerSettings, peerSettingsErr,
                    incomingUniStreams, calls >>

\* A slip in handleControlStream: the transport's datagram support is not consulted.
ControlOutcomeNoDatagramCheck(e, f) ==
    IF f.kind = "error" THEN "frame error"
    ELSE IF f.kind # "settings" THEN "missing settings"
    ELSE "accept"

\* A slip in handleControlStream: a first frame that is no Settings frame is
\* treated like a frame that could not be parsed.
ControlOutcomeNoMissingSettings(e, f) ==
    IF f.kind # "settings" THEN "frame error"
    ELSE IF DatagramsEnabled(f.s) /\ ~supportsDatagrams THEN "settings error"
    ELSE "accept"

\* What handleControlStream does with the first frame f of the control stream.
ControlOutcome(e, f) ==
    IF f.kind = "error" THEN "frame error"
    ELSE IF f.kind # "settings" THEN "missing settings"
    ELSE IF DatagramsEnabled(f.s) /\ ~supportsDatagrams THEN "settings error"
    ELSE "accept"

FirstFrame(e, i) ==
    ParseNextFrame(VarintRead(inStreams[e][i].data).rest)

\* A slip in handleControlStream: for an accepted frame the channel is closed
\* first, and the settings are not yet assigned when it is.
HandleControlStreamSignalsFirst(e, i) ==
    /\ inStreams[e][i].pc = "dispatch"
    /\ StreamType(e, i) = StreamTypeControl
    /\ LET out == ControlOutcome(e, FirstFrame(e, i))
       IN  \/ /\ out = "frame error"
              /\ CloseWithError(e, errorFrameError)
              /\ SetStreamPc(e, i, "done")
              /\ UNCHANGED peerSettingsDone
           \/ /\ out \in {"missing settings", "settings error"}
              /\ CloseWithError(e, IF out = "missing settings" THEN errorMissingSettings
                                                                 ELSE errorSettingsError)
              /\ SetStreamPc(e, i, "failed")
              /\ UNCHANGED peerSettingsDone
           \/ /\ out = "accept"
              /\ peerSettingsDone' = [peerSettingsDone EXCEPT ![e] = TRUE]
              /\ SetStreamPc(e, i, "done")
              /\ UNCHANGED << sessClosed, closeCalls >>
    /\ UNCHANGED << codecVars, live, supportsDatagrams, bidiPending, bidiTaken, openVars,
                    peerStreamsMutex, peerStreams, peerSettings, peerSettingsErr,
                    incomingUniStreams, calls >>

\* case StreamTypeControl: handleControlStream, up to the CloseWithError of
\* a refused frame, or up to the assignment of conn.peerSettings.
HandleControlStream(e, i) ==
    /\ inStreams[e][i].pc = "dispatch"
    /\ StreamType(e, i) = StreamTypeControl
    /\ LET out == ControlOutcome(e, FirstFrame(e, i))
       IN  \/ /\ out = "frame error"
              /\ CloseWithError(e, errorFrameError)
              /\ SetStreamPc(e, i, "done")
              /\ UNCHANGED peerSettings
           \/ /\ out = "missing settings"
              /\ CloseWithError(e, errorMissingSettings)
              /\ SetStreamPc(e, i, "failed")
              /\ UNCHANGED peerSettings
           \/ /\ out = "settings error"
              /\ CloseWithError(e, errorSettingsError)
              /\ SetStreamPc(e, i, "failed")
              /\ UNCHANGED peerSettings
           \/ /\ out = "accept"
              /\ peerSettings' = [peerSettings EXCEPT ![e] =
                                    [set |-> TRUE, s |-> FirstFrame(e, i).s]]
              /\ SetStreamPc(e, i, "stored")
              /\ UNCHANGED << sessClosed, closeCalls >>
    /\ UNCHANGED << codecVars, live, supportsDatagrams, bidiPending, bidiTaken, openVars,
                    peerStreamsMutex, peerStreams, peerSettingsDone, peerSettingsErr,
                    incomingUniStreams, calls >>

\* conn.peerSettingsErr = err; return
RecordSettingsErr(e, i) ==
    /\ inStreams[e][i].pc = "failed"
    /\ peerSettingsErr' = [peerSettingsErr EXCEPT ![e] =
          IF ControlOutcome(e, FirstFrame(e, i)) = "missing settings"
          THEN errorMissingSettings ELSE errorSettingsError]
    /\ SetStreamPc(e, i, "done")
    /\ UNCHANGED << codecVars, live, supportsDatagrams, sessClosed, closeCalls, bidiPending,
                    bidiTaken, openVars, peerStreamsMutex, peerStreams, peerSettingsDone,
                    peerSettings, incomingUniStreams, calls >>

\* close(conn.peerSettingsDone)
SignalPeerSettings(e, i) ==
    /\ inStreams[e][i].pc = "stored"
    /\ peerSettingsDone' = [peerSettingsDone EXCEPT ![e] = TRUE]
    /\ SetStreamPc(e, i, "done")
    /\ UNCHANGED << codecVars, live, supportsDatagrams, sessClosed, closeCalls, bidiPending,
                    bidiTaken, openVars, peerStreamsMutex, peerStreams, peerSettings,
                    peerSettingsErr, incomingUniStreams, calls >>

\* case StreamTypePush: a server closes the connection, a client does nothing.
HandlePushStream(e, i) ==
    /\ inStreams[e][i].pc = "dispatch"
    /\ StreamType(e, i) = StreamTypePush
    /\ \/ /\ isServer[e]
          /\ CloseWithError(e, errorStreamCreationError)
       \/ /\ ~isServer[e]
          /\ UNCHANGED << sessClosed, closeCalls >>
    /\ SetStreamPc(e, i, "done")
    /\ UNCHANGED << codecVars, live, supportsDatagrams, bidiPending, bidiTaken, openVars,
                    connVars >>

\* case StreamTypeQPACKEncoder, StreamTypeQPACKDecoder: nothing
HandleQPACKStream(e, i) ==
    /\ inStreams[e][i].pc = "dispatch"
    /\ StreamType(e, i) \in {StreamTypeQPACKEncoder, StreamTypeQPACKDecoder}
    /\ SetStreamPc(e, i, "done")
    /\ UNCHANGED << codecVars, live, supportsDatagrams, sessClosed, closeCalls, bidiPending,
                    bidiTaken, openVars, connVars >>

\* A slip in the dispatch: the QPACK streams fall through to the default case.
HandleOtherStreamAlsoQPACK(e, i) ==
    /\ inStreams[e][i].pc = "dispatch"
    /\ StreamType(e, i) >= 2
    /\ Len(incomingUniStreams[e]) < 1
    /\ incomingUniStreams' = [incomingUniStreams EXCEPT ![e] = Append(@, i)]
    /\ SetStreamPc(e, i, "done")
    /\ UNCHANGED << codecVars, live, supportsDatagrams, sessClosed, closeCalls, bidiPending,
                    bidiTaken, openVars, peerStreamsMutex, peerStreams, peerSettingsDone,
                    peerSettings, peerSettingsErr, calls >>

\* default: conn.incomingUniStreams <- str, which waits for room in the channel
HandleOtherStream(e, i) ==
    /\ inStreams[e][i].pc = "dispatch"
    /\ StreamType(e, i) >= 4
    /\ Len(incomingUniStreams[e]) < 1
    /\ incomingUniStreams' = [incomingUniStreams EXCEPT ![e] = Append(@, i)]
    /\ SetStreamPc(e, i, "done")
    /\ UNCHANGED << codecVars, live, supportsDatagrams, sessClosed, closeCalls, bidiPending,
                    bidiTaken, openVars, peerStreamsMutex, peerStreams, peerSettingsDone,
                    peerSettings, peerSettingsErr, calls >>

\* ------------------------------------------------------------------------
\* The accessors
\* ------------------------------------------------------------------------
SetCall(e, c, r) == calls' = [calls EXCEPT ![e][c] = r]

\* A caller enters an accessor of the connection Open returned.  The callers
\* other than the consumer are alike, so they are taken to call in turn.
Call(e, c, op) ==
    /\ openPc[e] = "running"
    /\ calls[e][c].st = "idle"
    /\ \A d \in 1 .. (c - 1) : calls[e][d].st # "idle"
    /\ SetCall(e, c, [IdleCall EXCEPT !.op = op, !.st = "waiting",
                                      !.sig = peerSettingsDone[e]])
    /\ UNCHANGED << codecVars, sessVars, openVars, peerStreamsMutex, peerStreams,
                    peerSettingsDone, peerSettings, peerSettingsErr, incomingUniStreams >>

CallPeerSettings(e, c) == c # Consumer /\ Call(e, c, "PeerSettings")
CallAcceptUniStream(e, c) == c = Consumer /\ Call(e, c, "AcceptUniStream")
CallAcceptStream(e, c) == c # Consumer /\ Call(e, c, "AcceptStream")

\* A slip in PeerSettings: it waits for the settings alone, not for the
\* session's context.
PeerSettingsReturnsDoneOnly(e, c) ==
    /\ calls[e][c].st = "waiting"
    /\ calls[e][c].op = "PeerSettings"
    /\ peerSettingsDone[e]
    /\ calls' = [calls EXCEPT ![e][c] = [calls[e][c] EXCEPT !.st = "returned",
                                                             !.s = peerSettings[e].s,
                                                             !.err = peerSettingsErr[e]]]
    /\ UNCHANGED << codecVars, sessVars, openVars, peerStreamsMutex, peerStreams,
                    peerSettingsDone, peerSettings, peerSettingsErr, incomingUniStreams >>

\* The select of PeerSettings: either case that is ready may be taken.
PeerSettingsReturns(e, c) ==
    /\ calls[e][c].st = "waiting"
    /\ calls[e][c].op = "PeerSettings"
    /\ \/ /\ peerSettingsDone[e]
          /\ SetCall(e, c, [calls[e][c] EXCEPT !.st = "returned",
                                               !.s = peerSettings[e].s,
                                               !.err = peerSettingsErr[e]])
       \/ /\ sessClosed
          /\ SetCall(e, c, [calls[e][c] EXCEPT !.st = "returned",
                                               !.s = NoSettings,
                                               !.err = "context canceled"])
    /\ UNCHANGED << codecVars, sessVars, openVars, peerStreamsMutex, peerStreams,
                    peerSettingsDone, peerSettings, peerSettingsErr, incomingUniStreams >>

\* The select of AcceptUniStream.
AcceptUniStreamReturns(e, c) ==
    /\ calls[e][c].st = "waiting"
    /\ calls[e][c].op = "AcceptUniStream"
    /\ \/ /\ incomingUniStreams[e] # << >>
          /\ SetCall(e, c, [calls[e][c] EXCEPT !.st = "returned",
                                               !.str = Head(incomingUniStreams[e])])
          /\ incomingUniStreams' = [incomingUniStreams EXCEPT ![e] = Tail(@)]
       \/ /\ sessClosed
          /\ SetCall(e, c, [calls[e][c] EXCEPT !.st = "returned",
                                               !.err = "QUIC session closed"])
          /\ UNCHANGED incomingUniStreams
    /\ UNCHANGED << codecVars, sessVars, openVars, peerStreamsMutex, peerStreams,
                    peerSettingsDone, peerSettings, peerSettingsErr >>

\* conn.AcceptStream(ctx): the transport's AcceptStream returns a stream, or
\* an error once the session is closed; the connection passes either on.
AcceptStreamReturns(e, c) ==
    /\ calls[e][c].st = "waiting"
    /\ calls[e][c].op = "AcceptStream"
    /\ \/ /\ ~sessClosed
          /\ bidiPending[e] > 0
          /\ bidiPending' = [bidiPending EXCEPT ![e] = @ - 1]
          /\ bidiTaken' = [bidiTaken EXCEPT ![e] = @ + 1]
          /\ SetCall(e, c, [calls[e][c] EXCEPT !.st = "returned", !.str = 1])
       \/ /\ sessClosed
          /\ SetCall(e, c, [calls[e][c] EXCEPT !.st = "returned", !.err = "session closed"])
          /\ UNCHANGED << bidiPending, bidiTaken >>
    /\ UNCHANGED << codecVars, live, supportsDatagrams, sessClosed, closeCalls, inStreams,
                    openVars, peerStreamsMutex, peerStreams, peerSettingsDone, peerSettings,
                    peerSettingsErr, incomingUniStreams >>

\* conn.OpenStream(): the transport's OpenStream does not wait; it opens a
\* stream, or fails once the session is closed; the connection passes either on.
OpenStream(e, c) ==
    /\ c # Consumer
    /\ openPc[e] = "running"
    /\ calls[e][c].st = "idle"
    /\ \A d \in 1 .. (c - 1) : calls[e][d].st # "idle"
    /\ \/ /\ ~sessClosed
          /\ bidiTaken' = [bidiTaken EXCEPT ![e] = @ + 1]
          /\ SetCall(e, c, [IdleCall EXCEPT !.op = "OpenStream", !.st = "returned", !.str = 1])
       \/ /\ sessClosed
          /\ SetCall(e, c, [IdleCall EXCEPT !.op = "OpenStream", !.st = "returned",
                                            !.err = "session closed"])
          /\ UNCHANGED bidiTaken
    /\ UNCHANGED << codecVars, live, supportsDatagrams, sessClosed, closeCalls, inStreams,
                    bidiPending, openVars, peerStreamsMutex, peerStreams, peerSettingsDone,
                    peerSettings, peerSettingsErr, incomingUniStreams >>

\* ------------------------------------------------------------------------
\* Spec: one connection, its peer played by the environment
\* ------------------------------------------------------------------------
Init ==
    /\ InitCodecIdle
    /\ InitConnIdle
    /\ live \in {{"client"}, {"server"}}
    /\ supportsDatagrams \in BOOLEAN
    /\ settingsArg \in [Ends -> SettingsArgs]
    /\ \A e \in Ends \ live : settingsArg[e].nil

OpenStep(e) ==
    \/ OpenControlStream(e)
    \/ OpenWriteSettings(e)
    \/ OpenStartLoop(e)

LoopStep(e) ==
    \/ LoopAccepts(e)
    \/ LoopExits(e)

HandlerStep(e, i) ==
    \/ ReadStreamType(e, i)
    \/ ClaimSlot(e, i)
    \/ ClaimSlotTaken(e, i)
    \/ HandleControlStream(e, i)
    \/ RecordSettingsErr(e, i)
    \/ SignalPeerSettings(e, i)
    \/ HandlePushStream(e, i)
    \/ HandleQPACKStream(e, i)
    \/ HandleOtherStream(e, i)

Next ==
    \/ \E e \in Ends : OpenStep(e)
    \/ \E e \in Ends : OpenControlStreamFails(e)
    \/ \E e \in Ends : PeerOpensUniStream(e)
    \/ SessionEnds
    \/ \E e \in Ends : LoopStep(e)
    \/ \E e \in Ends, i \in StreamIdx : HandlerStep(e, i)

\* The steps of the program, as opposed to those of the peer and the callers.
ProgramStep ==
    \/ \E e \in Ends : OpenStep(e) \/ LoopStep(e)
    \/ \E e \in Ends, i \in StreamIdx : HandlerStep(e, i)

\* The Go scheduler runs the goroutines that can take a step: the program
\* does not stop while one of them can.  The peer, the session's end and the
\* callers' calls are under no such obligation.
ConnFairness == WF_vars(ProgramStep)

Spec == Init /\ [][Next]_vars /\ ConnFairness

\* ------------------------------------------------------------------------
\* SpecCalls: the same connection, with callers in PeerSettings and
\* AcceptUniStream
\* ------------------------------------------------------------------------
InitCalls ==
    /\ InitCodecIdle
    /\ InitConnIdle
    /\ live \in {{"client"}, {"server"}}
    /\ supportsDatagrams \in BOOLEAN
    /\ settingsArg = [e \in Ends |-> [nil |-> TRUE, s |-> NoSettings]]

CallerStep(e, c) ==
    \/ PeerSettingsReturns(e, c)
    \/ AcceptUniStreamReturns(e, c)

NextCalls ==
    \/ \E e \in Ends : OpenStep(e)
    \/ \E e \in Ends : PeerOpensCallStream(e)
    \/ SessionEnds
    \/ \E e \in Ends : LoopStep(e)
    \/ \E e \in Ends, i \in StreamIdx : HandlerStep(e, i)
    \/ \E e \in Ends, c \in Callers : CallPeerSettings(e, c)
    \/ \E e \in Ends, c \in Callers : CallAcceptUniStream(e, c)
    \/ \E e \in Ends, c \in Callers : CallerStep(e, c)

\* A call that can return does.
CallFairness ==
    WF_vars(ProgramStep \/ \E e \in Ends, c \in Callers : CallerStep(e, c))

SpecCalls == InitCalls /\ [][NextCalls]_vars /\ CallFairness

\* ------------------------------------------------------------------------
\* SpecBidi: the same connection, with callers of AcceptStream and OpenStream
\* ------------------------------------------------------------------------
NextBidi ==
    \/ \E e \in Ends : OpenStep(e)
    \/ \E e \in Ends : PeerOpensBidiStream(e)
    \/ SessionEnds
    \/ \E e \in Ends : LoopExits(e)
    \/ \E e \in Ends, c \in Callers : CallAcceptStream(e, c)
    \/ \E e \in Ends, c \in Callers : AcceptStreamReturns(e, c)
    \/ \E e \in Ends, c \in Callers : OpenStream(e, c)

SpecBidi == InitCalls /\ [][NextBidi]_vars

\* ------------------------------------------------------------------------
\* SpecDemux: the same connection, with every caller a consumer of the
\* inbound queue
\* ------------------------------------------------------------------------
CallAcceptUniStreamAny(e, c) == Call(e, c, "AcceptUniStream")

NextDemux ==
    \/ \E e \in Ends : OpenStep(e)
    \/ \E e \in Ends : PeerOpensCallStream(e)
    \/ SessionEnds
    \/ \E e \in Ends : LoopStep(e)
    \/ \E e \in Ends, i \in StreamIdx : HandlerStep(e, i)
    \/ \E e \in Ends, c \in Callers : CallAcceptUniStreamAny(e, c)
    \/ \E e \in Ends, c \in Callers : AcceptUniStreamReturns(e, c)

\* The goroutines run, a call that can return does, and the consumers keep
\* calling.
DemuxFairness ==
    WF_vars(\/ ProgramStep
            \/ \E e \in Ends, c \in Callers : CallAcceptUniStreamAny(e, c)
            \/ \E e \in Ends, c \in Callers : AcceptUniStreamReturns(e, c))

SpecDemux == InitCalls /\ [][NextDemux]_vars /\ DemuxFairness

\* ------------------------------------------------------------------------
\* SpecE2E: a client and a server, each calling Open with nil settings on
\* its end of a session that supports datagrams and is not closed
\* ------------------------------------------------------------------------
InitE2E ==
    /\ InitCodecIdle
    /\ InitConnIdle
    /\ live = Ends
    /\ supportsDatagrams = TRUE
    /\ settingsArg = [e \in Ends |-> [nil |-> TRUE, s |-> NoSettings]]

\* The steps a handler of a control stream takes when nothing is refused
\* (C7_NothingRefused shows that no other step of HandlerStep is ever enabled).
ControlHandlerStep(e, i) ==
    \/ ReadStreamType(e, i)
    \/ ClaimSlot(e, i)
    \/ HandleControlStream(e, i)
    \/ SignalPeerSettings(e, i)

NextE2E ==
    \/ \E e \in Ends : OpenStep(e)
    \/ \E e \in Ends : ControlStreamArrives(e)
    \/ \E e \in Ends : LoopAccepts(e)
    \/ \E e \in Ends, i \in StreamIdx : ControlHandlerStep(e, i)
    \/ \E e \in Ends, c \in Callers : CallPeerSettings(e, c)
    \/ \E e \in Ends, c \in Callers : PeerSettingsReturns(e, c)

\* Fair scheduling: the goroutines run, the transport delivers what was sent,
\* and the callers do call.
E2EFairness == WF_vars(NextE2E)

SpecE2E == InitE2E /\ [][NextE2E]_vars /\ E2EFairness

\* ------------------------------------------------------------------------
\* Claims about the connection
\* ------------------------------------------------------------------------
IsCall(e, c, op, st) == calls[e][c].op = op /\ calls[e][c].st = st
Returns(e, c, op) == IsCall(e, c, op, "waiting") /\ calls'[e][c].st = "returned"
Arrived(e, i) == inStreams[e][i].pc \notin {"absent", "pending"}
Accepted(e, i) == inStreams[e][i].pc \notin {"absent", "pending", "read", "cancelled"}
IsControl(e, i) == Accepted(e, i) /\ StreamType(e, i) = StreamTypeControl

\* C1: once handleControlStream has refused the peer's first frame and
\* recorded the negotiation error (missing-settings or settings-error), every
\* PeerSettings() call that returns returns that error.
C1_RefusalReported ==
    [][\A e \in Ends, c \in Callers :
          (peerSettingsErr[e] # "nil" /\ Returns(e, c, "PeerSettings"))
              => calls'[e][c].err = peerSettingsErr[e]]_vars

\* C2: a recorded reserved-type stream is never replaced; a handler of a
\* reserved-type stream gets past the slot test only as the stream recorded
\* in its slot; a handler that finds its slot taken has closed the connection
\* with stream-creation-error and goes no further.
C2_SlotKept ==
    \A e \in Ends, t \in 0 .. 3 :
        peerStreams[e][t] # 0 => peerStreams'[e][t] = peerStreams[e][t]

C2_OnlyOwnerDispatched ==
    \A e \in Ends, i \in StreamIdx :
        (Accepted(e, i) /\ StreamType(e, i) < 4) =>
            \/ inStreams[e][i].pc = "lock"
            \/ /\ inStreams[e][i].pc = "duplicate"
               /\ peerStreams[e][StreamType(e, i)] \notin {0, i}
               /\ errorStreamCreationError \in {closeCalls[e][k] : k \in DOMAIN closeCalls[e]}
               /\ sessClosed
            \/ /\ inStreams[e][i].pc \in {"dispatch", "failed", "stored", "done"}
               /\ peerStreams[e][StreamType(e, i)] = i

C2_ReservedSlotExclusive == [][C2_SlotKept]_vars /\ []C2_OnlyOwnerDispatched

\* A second control stream was refused while the first one is recorded.
C2_Witness ==
    \E e \in Ends, i, j \in StreamIdx :
        /\ inStreams[e][j].pc = "duplicate"
        /\ StreamType(e, j) = StreamTypeControl
        /\ peerStreams[e][StreamTypeControl] = i
        /\ i # j

\* C3: all PeerSettings() calls made after the peer settings have arrived
\* return the same (Settings, error).
C3_SameResultOnceArrived ==
    \A e \in Ends, c, d \in Callers :
        (/\ IsCall(e, c, "PeerSettings", "returned") /\ calls[e][c].sig
         /\ IsCall(e, d, "PeerSettings", "returned") /\ calls[e][d].sig)
            => (calls[e][c].s = calls[e][d].s /\ calls[e][c].err = calls[e][d].err)

\* C4: once the session has ended, every caller suspended in PeerSettings()
\* or AcceptUniStream() returns; PeerSettings() returns an error when the peer
\* settings have not arrived, AcceptUniStream() when no stream is queued.
NoneWaiting == \A e \in Ends, c \in Callers : calls[e][c].st # "waiting"

C4_Unblocked == sessClosed ~> NoneWaiting

C4_ErrorWhenNothingToReturn ==
    \A e \in Ends, c \in Callers :
        /\ (Returns(e, c, "PeerSettings") /\ ~peerSettingsDone[e])
              => (calls'[e][c].err = "context canceled" /\ sessClosed)
        /\ (Returns(e, c, "AcceptUniStream") /\ incomingUniStreams[e] = << >>)
              => (calls'[e][c].err = "QUIC session closed" /\ sessClosed)

C4_CancellationLiveness == C4_Unblocked /\ [][C4_ErrorWhenNothingToReturn]_vars

\* The session ended with nothing to return, and a PeerSettings caller and
\* the consumer of the queue both came back with an error.
C4_Witness ==
    \E e \in Ends, c \in Callers :
        /\ IsCall(e, c, "PeerSettings", "returned")
        /\ calls[e][c].err = "context canceled"
        /\ IsCall(e, Consumer, "AcceptUniStream", "returned")
        /\ calls[e][Consumer].err = "QUIC session closed"
        /\ ~peerSettingsDone[e]

\* C5: whenever the accept loop has been started, or an incoming stream has
\* been accepted, the control stream holds the stream type and the Settings
\* frame; when opening the control stream failed the loop is never started.
WroteSettings(e) ==
    \E ids \in IterOrders(settings[e]) :
        ctrlOut[e] = VarintWrite(StreamTypeControl) \o WriteFrame(settings[e], ids)

C5_SettingsBeforeLoop ==
    \A e \in Ends :
        /\ (loopPc[e] # "none" \/ \E i \in StreamIdx : Arrived(e, i)) => WroteSettings(e)
        /\ openPc[e] = "failed" =>
              (loopPc[e] = "none" /\ ctrlOut[e] = << >> /\ \A i \in StreamIdx : ~Arrived(e, i))

\* A stream that was waiting before Open wrote anything has been handled.
C5_Witness ==
    \E e \in Ends, i \in StreamIdx :
        /\ inStreams[e][i].pc = "done"
        /\ WroteSettings(e)
        /\ Len(ctrlOut[e]) > 3

\* C6: for a control stream whose first frame is a Settings frame: when it
\* enables datagrams and the transport does not support them, the connection
\* is closed with settings-error, the settings are not stored and the signal
\* does not fire; otherwise the settings are stored, the signal fires, and
\* handleControlStream does not close the connection.
ControlCloseCodes == {errorFrameError, errorMissingSettings, errorSettingsError}
CloseCodes(e) == {closeCalls[e][k] : k \in DOMAIN closeCalls[e]}

C6_DatagramNegotiation ==
    \A e \in Ends, i \in StreamIdx :
        (IsControl(e, i) /\ FirstFrame(e, i).kind = "settings"
            /\ inStreams[e][i].pc \in {"failed", "stored", "done"}) =>
            IF DatagramsEnabled(FirstFrame(e, i).s) /\ ~supportsDatagrams
            THEN /\ CloseCodes(e) \cap ControlCloseCodes = {errorSettingsError}
                 /\ sessClosed
                 /\ ~peerSettings[e].set
                 /\ ~peerSettingsDone[e]
                 /\ inStreams[e][i].pc # "stored"
            ELSE /\ CloseCodes(e) \cap ControlCloseCodes = {}
                 /\ peerSettings[e] = [set |-> TRUE, s |-> FirstFrame(e, i).s]
                 /\ inStreams[e][i].pc # "failed"
                 /\ inStreams[e][i].pc = "done" => peerSettingsDone[e]

\* Settings enabling datagrams were refused on a transport without them.
C6_Witness ==
    \E e \in Ends, i \in StreamIdx :
        /\ IsControl(e, i)
        /\ inStreams[e][i].pc = "done"
        /\ FirstFrame(e, i).kind = "settings"
        /\ DatagramsEnabled(FirstFrame(e, i).s)
        /\ ~supportsDatagrams
        /\ errorSettingsError \in CloseCodes(e)

\* C7: with Open called with nil settings on both ends of a session that
\* supports datagrams and is not closed, CloseWithError is never called, and
\* eventually every PeerSettings() call has returned the other side's local
\* Settings, with the datagram id set to 1, and a nil error.
C7_NothingRefused ==
    /\ ~sessClosed
    /\ \A e \in Ends :
          /\ closeCalls[e] = << >>
          /\ peerSettingsErr[e] = "nil"
          /\ \A i \in StreamIdx :
                Accepted(e, i) =>
                    /\ StreamType(e, i) = StreamTypeControl
                    /\ ControlOutcome(e, FirstFrame(e, i)) = "accept"
                    /\ inStreams[e][i].pc = "lock" => peerStreams[e][StreamTypeControl] = 0

C7_AllReturned ==
    \A e \in Ends, c \in Callers \ {Consumer} :
        /\ IsCall(e, c, "PeerSettings", "returned")
        /\ calls[e][c].err = "nil"
        /\ calls[e][c].s = settings[Other(e)]
        /\ SettingDatagram \in DOMAIN calls[e][c].s
        /\ calls[e][c].s[SettingDatagram] = 1

C7_HandshakeCompletes == []C7_NothingRefused /\ <>[]C7_AllReturned

C7_Witness == C7_AllReturned /\ \A e \in Ends : peerSettingsDone[e] /\ isServer[e] = (e = "server")

\* C8: AcceptStream on a client-perspective connection, and OpenStream on a
\* server-perspective connection, return an error and no stream.
C8_PerspectiveGuard ==
    \A e \in Ends, c \in Callers :
        /\ (IsCall(e, c, "AcceptStream", "returned") /\ ~isServer[e])
              => (calls[e][c].err # "nil" /\ calls[e][c].str = 0)
        /\ (IsCall(e, c, "OpenStream", "returned") /\ isServer[e])
              => (calls[e][c].err # "nil" /\ calls[e][c].str = 0)

\* C12: at most one stream of a connection is ever handled as the control
\* stream; the channel is closed at most once (no handler is left about to
\* close it once it is closed); the settings are assigned before the channel
\* is closed, at most once, and stay as assigned; a PeerSettings caller
\* released by the channel returns the assigned settings.
RanControlHandler(e, i) ==
    IsControl(e, i) /\ inStreams[e][i].pc \in {"failed", "stored", "done"}

C12_OneHandler ==
    \A e \in Ends :
        /\ \A i, j \in StreamIdx : (RanControlHandler(e, i) /\ RanControlHandler(e, j)) => i = j
        /\ \A i \in StreamIdx : inStreams[e][i].pc = "stored" => RanControlHandler(e, i)
        /\ peerSettingsDone[e] =>
              (peerSettings[e].set /\ \A i \in StreamIdx : inStreams[e][i].pc # "stored")

C12_AssignedOnce ==
    \A e \in Ends :
        /\ peerSettings[e].set => peerSettings'[e] = peerSettings[e]
        /\ peerSettingsDone[e] => peerSettingsDone'[e]
        /\ \A c \in Callers :
              (Returns(e, c, "PeerSettings") /\ calls'[e][c].err = "nil") =>
                  (peerSettings[e].set /\ calls'[e][c].s = peerSettings[e].s)

C12_OneShotPublication == []C12_OneHandler /\ [][C12_AssignedOnce]_vars

\* A caller was released with the settings of the first control stream while
\* a second control stream was refused.
C12_Witness ==
    \E e \in Ends, c \in Callers, i, j \in StreamIdx :
        /\ IsCall(e, c, "PeerSettings", "returned")
        /\ calls[e][c].err = "nil"
        /\ DatagramsEnabled(calls[e][c].s)
        /\ RanControlHandler(e, i)
        /\ i # j
        /\ inStreams[e][j].pc = "duplicate"
        /\ StreamType(e, j) = StreamTypeControl

\* C13: when the first frame of the peer's control stream is a frame other
\* than Settings, the connection is closed with missing-settings, and once
\* the handler has returned conn.peerSettingsErr holds that error; no
\* settings are assigned and the channel is not closed.
C13_MissingSettings ==
    \A e \in Ends, i \in StreamIdx :
        (RanControlHandler(e, i) /\ FirstFrame(e, i).kind = "other") =>
            /\ inStreams[e][i].pc \in {"failed", "done"}
            /\ CloseCodes(e) \cap ControlCloseCodes = {errorMissingSettings}
            /\ sessClosed
            /\ ~peerSettings[e].set
            /\ ~peerSettingsDone[e]
            /\ peerSettingsErr[e] \in {"nil", errorMissingSettings}
            /\ inStreams[e][i].pc = "done" => peerSettingsErr[e] = errorMissingSettings

\* The handler of a control stream that starts with another frame returned.
C13_Witness ==
    \E e \in Ends, i \in StreamIdx :
        /\ RanControlHandler(e, i)
        /\ FirstFrame(e, i).kind = "other"
        /\ inStreams[e][i].pc = "done"
        /\ peerSettingsErr[e] = errorMissingSettings
        /\ errorMissingSettings \in CloseCodes(e)

\* C14: once the handler of the first incoming push stream has returned, the
\* connection is closed: with stream-creation-error on a server, with id-error
\* on a client; a push stream is never put on the inbound queue.
Queued(e) == {incomingUniStreams[e][k] : k \in DOMAIN incomingUniStreams[e]}

C14_PushPolicy ==
    \A e \in Ends, i \in StreamIdx :
        (Accepted(e, i) /\ StreamType(e, i) = StreamTypePush) =>
            /\ i \notin Queued(e)
            /\ (inStreams[e][i].pc = "done" /\ peerStreams[e][StreamTypePush] = i) =>
                  /\ sessClosed
                  /\ isServer[e] => errorStreamCreationError \in CloseCodes(e)
                  /\ ~isServer[e] => errorIDError \in CloseCodes(e)

\* C15: a handler that cannot read the type of its stream cancels the read
\* side of that stream with general-protocol-error and returns: in that step
\* the connection is not closed, no slot, queue or peer-settings state
\* changes and no other stream is touched; the stream stays cancelled, and a
\* stream is cancelled only for a type that could not be read.
TypeUnreadable(e, i) == ~VarintRead(inStreams[e][i].data).ok

C15_CancelStep ==
    \A e \in Ends, i \in StreamIdx :
        /\ (inStreams[e][i].pc = "read" /\ TypeUnreadable(e, i)
                /\ inStreams'[e][i] # inStreams[e][i]) =>
               /\ inStreams'[e][i] = [inStreams[e][i] EXCEPT
                                          !.pc = "cancelled",
                                          !.cancel = errorGeneralProtocolError]
               /\ \A j \in StreamIdx \ {i} : inStreams'[e][j] = inStreams[e][j]
               /\ UNCHANGED << sessClosed, closeCalls, peerStreamsMutex, peerStreams,
                               incomingUniStreams, peerSettings, peerSettingsDone,
                               peerSettingsErr >>
        /\ inStreams[e][i].pc = "cancelled" => inStreams'[e][i] = inStreams[e][i]

C15_OnlyUnreadable ==
    \A e \in Ends, i \in StreamIdx :
        /\ inStreams[e][i].cancel # "none" <=> inStreams[e][i].pc = "cancelled"
        /\ inStreams[e][i].pc = "cancelled" => TypeUnreadable(e, i)
        /\ (Arrived(e, i) /\ TypeUnreadable(e, i)) => inStreams[e][i].pc \in {"read", "cancelled"}

C15_ReadFailure == [][C15_CancelStep]_vars /\ []C15_OnlyUnreadable

\* A stream holding half a varint was cancelled, the connection is open and
\* another stream went on to be handled.
C15_Witness ==
    \E e \in Ends, i, j \in StreamIdx :
        /\ inStreams[e][i].pc = "cancelled"
        /\ inStreams[e][i].data # << >>
        /\ inStreams[e][i].cancel = errorGeneralProtocolError
        /\ ~sessClosed
        /\ closeCalls[e] = << >>
        /\ i < j
        /\ inStreams[e][j].pc = "done"

\* C16: a stream returned by AcceptUniStream, or waiting in the queue, is of
\* a type >= 4 and its handler has returned; a stream of a reserved type that
\* got past the slot test is in its slot; no stream is returned to two
\* callers, or returned and still queued; the queue holds at most one stream;
\* and, as long as the session is open, every stream of a type >= 4 whose
\* type was read is eventually returned to a caller.
Delivered(e, i) ==
    \E c \in Callers : IsCall(e, c, "AcceptUniStream", "returned") /\ calls[e][c].str = i

Undelivered(e, i) == Accepted(e, i) /\ StreamType(e, i) >= 4 /\ ~Delivered(e, i)

C16_Demux ==
    \A e \in Ends :
        /\ Len(incomingUniStreams[e]) <= 1
        /\ \A i \in Queued(e) :
              inStreams[e][i].pc = "done" /\ StreamType(e, i) >= 4 /\ ~Delivered(e, i)
        /\ \A c \in Callers :
              IsCall(e, c, "AcceptUniStream", "returned") =>
                  IF calls[e][c].err = "nil"
                  THEN /\ calls[e][c].str \in StreamIdx
                       /\ inStreams[e][calls[e][c].str].pc = "done"
                       /\ StreamType(e, calls[e][c].str) >= 4
                       /\ \A d \in Callers \ {c} :
                             IsCall(e, d, "AcceptUniStream", "returned") =>
                                 calls[e][d].str # calls[e][c].str
                  ELSE calls[e][c].str = 0
        /\ \A i \in StreamIdx :
              (Accepted(e, i) /\ StreamType(e, i) < 4
                   /\ inStreams[e][i].pc \notin {"lock", "duplicate"}) =>
                  peerStreams[e][StreamType(e, i)] = i

C16_EventuallyDelivered ==
    (\E e \in Ends, i \in StreamIdx : Undelivered(e, i))
        ~> (sessClosed \/ \A e \in Ends, i \in StreamIdx : ~Undelivered(e, i))

C16_Demultiplexing == []C16_Demux /\ C16_EventuallyDelivered

\* Two streams of a non-reserved type went to two callers, the session open.
C16_Witness ==
    \E e \in Ends, c, d \in Callers :
        /\ c # d
        /\ ~sessClosed
        /\ IsCall(e, c, "AcceptUniStream", "returned") /\ calls[e][c].str = 1
        /\ IsCall(e, d, "AcceptUniStream", "returned") /\ calls[e][d].str = 2

\* C17: a handler that has returned does not hold the reserved-slot mutex.
HandlerReturned(e, i) == inStreams[e][i].pc \in {"cancelled", "duplicate", "done"}

C17_MutexReleased ==
    \A e \in Ends, i \in StreamIdx : HandlerReturned(e, i) => peerStreamsMutex[e] # i

\* C18: once the session has ended, the accept loop is eventually not
\* running any more and every handler that was started has returned; and the
\* loop starts no handler once the session has ended.
NoTaskLeft ==
    \A e \in Ends :
        /\ loopPc[e] # "running"
        /\ \A i \in StreamIdx : Arrived(e, i) => HandlerReturned(e, i)

C18_NoSpawnAfterEnd ==
    \A e \in Ends, i \in StreamIdx :
        (sessClosed /\ ~Arrived(e, i)) => ~Arrived(e, i)'

C18_NoTaskLeak == (sessClosed ~> NoTaskLeft) /\ [][C18_NoSpawnAfterEnd]_vars

\* ------------------------------------------------------------------------
\* Claims about the codec (checked under SpecCodec)
\* ------------------------------------------------------------------------
HeaderRead == cMode = "enc" /\ cPc = "payload"

HeaderMatches ==
    /\ cHdr.ok
    /\ cHdr.type = FrameTypeSettings
    /\ cHdr.len = FrameLength(cIn)
    /\ Len(cPayload) = cHdr.len

\* C9 as stated: for ANY Settings mapping s, the bytes of s.WriteFrame are the
\* type FrameTypeSettings, the length s.FrameLength() and a payload from
\* which ReadSettingsFrame(payload, length) returns s without error.
C9_RoundTripAnyMapping ==
    /\ HeaderRead => HeaderMatches
    /\ (HeaderRead /\ cRead # NotRun) => (cRead.err = "nil" /\ cRead.s = cIn)

\* C9 as amended: the same for every Settings mapping whose FrameLength() is
\* at most 8192 bytes; the header is as stated for every mapping.
C9_RoundTripWithinCap ==
    /\ HeaderRead => HeaderMatches
    /\ (HeaderRead /\ cRead # NotRun /\ FrameLength(cIn) <= MaxSettingsFrameLen)
           => (cRead.err = "nil" /\ cRead.s = cIn)

\* A mapping of two entries with different varint sizes came back whole.
C9_Witness ==
    /\ HeaderRead
    /\ Cardinality(DOMAIN cIn) = 2
    /\ \E a, b \in DOMAIN cIn : VarintLen(a) # VarintLen(b) /\ cIn[a] # cIn[b]
    /\ cRead.err = "nil"
    /\ cRead.s = cIn

HasDupId(ps) == \E i, j \in DOMAIN ps : i < j /\ ps[i].id = ps[j].id

\* C10 as stated: for ANY payload in which some setting id occurs twice,
\* both UnmarshalFrame and ReadSettingsFrame fail with the duplicate-setting
\* error.
C10_DupAlwaysDupError ==
    (cMode = "dec" /\ HasDupId(cPairs)) =>
        /\ cRead # NotRun => cRead.err = "duplicate setting"
        /\ cUnm # NotCalled => cUnm.err = "duplicate setting"

\* C10 as amended: for any payload in which some setting id occurs twice,
\* both decoders fail and return no mapping; the error is the
\* duplicate-setting error when the payload is at most 8192 bytes long and
\* made of complete id/value pairs.
C10_DupRejected ==
    (cMode = "dec" /\ HasDupId(cPairs)) =>
        /\ cRead # NotRun => (cRead.err # "nil" /\ cRead.s = NoSettings)
        /\ cUnm # NotCalled => cUnm.err # "nil"
        /\ (~cTrunc /\ Len(cPayload) <= MaxSettingsFrameLen) =>
              /\ cRead # NotRun => cRead.err = "duplicate setting"
              /\ cUnm # NotCalled => cUnm.err = "duplicate setting"

\* Both decoders refused a payload whose repeated id is not adjacent, has two
\* different values and is written in two different varint forms.
C10_Witness ==
    /\ cMode = "dec"
    /\ \E i, j \in DOMAIN cPairs :
          /\ i + 1 < j
          /\ cPairs[i].id = cPairs[j].id
          /\ cPairs[i].val # cPairs[j].val
          /\ cPairs[i].long # cPairs[j].long
          /\ \A k \in DOMAIN cPairs : k < j /\ k # i => cPairs[k].id # cPairs[i].id
    /\ cRead.err = "duplicate setting"
    /\ cUnm.err = "duplicate setting"

OverCap(b) == Len(b) > MaxSettingsFrameLen

\* C11: a payload longer than 8192 bytes is refused by UnmarshalFrame and by
\* ReadSettingsFrame with the size error, before any turn of the parsing loop
\* and, for ReadSettingsFrame, before the buffer is made or a byte is read; a
\* payload of exactly 8192 bytes is not refused by the cap and is parsed.
C11_SizeCap ==
    /\ (cRead # NotRun /\ DeclaredLen > MaxSettingsFrameLen) =>
          /\ cRead.err = "unexpected size"
          /\ cRead.turns = 0 /\ cRead.alloc = 0 /\ cRead.read = 0
    /\ (cUnm # NotCalled /\ OverCap(cPayload)) =>
          /\ cUnm.err = "unexpected size"
          /\ cUnm.turns = 0
    /\ (cRead # NotRun /\ DeclaredLen = MaxSettingsFrameLen) =>
          /\ cRead.err # "unexpected size"
          /\ cRead.turns > 0 /\ cRead.read = MaxSettingsFrameLen
    /\ (cUnm # NotCalled /\ Len(cPayload) = MaxSettingsFrameLen) =>
          /\ cUnm.err # "unexpected size"
          /\ cUnm.turns > 0

\* Both decoders refused a crafted payload of more than 8192 bytes.
C11_Witness ==
    /\ cMode = "dec"
    /\ OverCap(cPayload)
    /\ cRead.err = "unexpected size"
    /\ cUnm.err = "unexpected size"

\* Both decoders parsed a payload of exactly 8192 bytes to its end.
C11_AtCapWitness ==
    /\ Len(cPayload) = MaxSettingsFrameLen
    /\ cRead.err = "nil" /\ cRead.turns = CapEntries
    /\ cUnm.err = "nil" /\ cUnm.turns = CapEntries

IsAscending(ids) == \A i \in 1 .. (Len(ids) - 1) : ids[i] < ids[i + 1]

\* C19: the bytes written by WriteFrame are the type, the length and the
\* id/value pairs in ascending order of the ids, whatever the order in which
\* the range over the map yields them (stated for the mappings whose
\* iteration orders are all enumerated).
C19_AscendingOrder ==
    (cMode = "enc" /\ cPc # "start" /\ Cardinality(DOMAIN cIn) <= MaxSettings) =>
        \E ids \in IterOrders(cIn) :
            /\ IsAscending(ids)
            /\ cWire = VarintWrite(FrameTypeSettings) \o VarintWrite(FrameLength(cIn))
                            \o WritePairs(cIn, ids)

\* C20: when s.UnmarshalFrame(b) returns nil, the map s held by the caller
\* is the mapping ReadSettingsFrame returns for the same payload: the pairs of
\* b and nothing that was in s before the call.
C20_PopulatesReceiver ==
    (cUnm # NotCalled /\ cUnm.err = "nil") =>
        cUnm.s = ReadSettingsFrame(cPayload, Len(cPayload)).s

====
